---- MODULE Spec2Model ----
(***************************************************************************)
(* Henry's-law gas solubility (henrys_law.py) and RuBisCO kinetics with    *)
(* Arrhenius temperature scaling (rubiscos.py).                            *)
(*                                                                         *)
(* Numbers.  The program computes on floats; the model computes on exact   *)
(* rationals <<n, d>> in lowest terms with d > 0, so that every literal of *)
(* the source (3.3e-4, 298.15, 8.314e-3, ...) is represented exactly.      *)
(* Two values outside the rationals share the encoding:                    *)
(*   None    == <<0, 0>>   Python's None (an omitted optional argument),   *)
(*   DivZero == <<1, 0>>   the outcome of a division by zero, absorbing    *)
(*                         in every later operation.                       *)
(* Floating-point rounding is not modelled.                                *)
(*                                                                         *)
(* np.exp is an external function.  It is modelled by ExpQ, a rational     *)
(* surrogate that keeps exp(0) = 1, positivity, monotonicity and           *)
(* exp(-x) = 1/exp(x), and differs from 1 everywhere but at 0.             *)
(*                                                                         *)
(* State.  heap holds the module-level objects of both files under their   *)
(* own names, and under "local" the instance the caller has constructed.   *)
(* x is the caller's variable: the name of the object it works with.       *)
(* call is the last statement the caller ran on x and ret what it          *)
(* returned.  The caller runs one statement at a time: it binds x (to a    *)
(* module-level instance or to a new one), calls methods on x, taking the  *)
(* result of each call before the next, and unbinds x again.               *)
(***************************************************************************)
EXTENDS Integers, Sequences, FiniteSets, TLC

VARIABLES heap, x, call, ret

vars == <<heap, x, call, ret>>

(* ------------------------------ bounds -------------------------------- *)
\* constructor arguments and partial pressures range over 1..MaxVal
MaxVal == 2
\* gas concentrations, in uM: 1..MaxConc, and 200
MaxConc == 2

(* ------------------------- rational arithmetic ------------------------ *)
None == <<0, 0>>
DivZero == <<1, 0>>

Abs(n) == IF n < 0 THEN -n ELSE n

RECURSIVE GCD(_, _)
GCD(a, b) == IF b = 0 THEN a ELSE GCD(b, a % b)

\* the rational n/d in lowest terms; a zero denominator is a division by zero
Q(n, d) ==
    IF d = 0 THEN DivZero
    ELSE LET g == GCD(Abs(n), Abs(d))
             s == IF d < 0 THEN -1 ELSE 1
         IN  <<(s * n) \div g, (s * d) \div g>>

Num(n) == <<n, 1>>
Zero == Num(0)
One == Num(1)

IsNum(a) == a[2] > 0
IsErr(a) == a[2] = 0

Neg(a) == IF IsErr(a) THEN DivZero ELSE <<-a[1], a[2]>>

Mul(a, b) ==
    IF IsErr(a) \/ IsErr(b) THEN DivZero
    ELSE LET g1 == GCD(Abs(a[1]), b[2])
             g2 == GCD(Abs(b[1]), a[2])
         IN  Q((a[1] \div g1) * (b[1] \div g2), (a[2] \div g2) * (b[2] \div g1))

Div(a, b) ==
    IF IsErr(a) \/ IsErr(b) \/ b[1] = 0 THEN DivZero
    ELSE Mul(a, IF b[1] < 0 THEN <<-b[2], -b[1]>> ELSE <<b[2], b[1]>>)

Add(a, b) ==
    IF IsErr(a) \/ IsErr(b) THEN DivZero
    ELSE LET g == GCD(a[2], b[2])
         IN  Q(a[1] * (b[2] \div g) + b[1] * (a[2] \div g), (a[2] \div g) * b[2])

Sub(a, b) == Add(a, Neg(b))

\* the order of n1/d1 and n2/d2 (d1, d2 > 0) as -1, 0 or 1, by comparing the
\* integer parts and then, inverted, the fractional parts: no product is formed
RECURSIVE Cmp(_, _, _, _)
Cmp(n1, d1, n2, d2) ==
    LET q1 == n1 \div d1
        q2 == n2 \div d2
        r1 == n1 % d1
        r2 == n2 % d2
    IN  IF q1 < q2 THEN -1
        ELSE IF q1 > q2 THEN 1
        ELSE IF r1 = 0 /\ r2 = 0 THEN 0
        ELSE IF r1 = 0 THEN -1
        ELSE IF r2 = 0 THEN 1
        ELSE Cmp(d2, r2, d1, r1)

Lt(a, b) == IsNum(a) /\ IsNum(b) /\ Cmp(a[1], a[2], b[1], b[2]) < 0
Leq(a, b) == IsNum(a) /\ IsNum(b) /\ Cmp(a[1], a[2], b[1], b[2]) <= 0

\* the least integer >= a, for a number a
Ceil(a) == -((-a[1]) \div a[2])

\* Python's `a or b` on an optional number: None and 0 are falsy
Falsy(a) == a = None \/ a = Zero
PyOr(a, b) == IF Falsy(a) THEN b ELSE a

(* ------------------------------- np.exp ------------------------------- *)
ExpQ(a) ==
    IF IsErr(a) THEN DivZero
    ELSE IF a[1] = 0 THEN One
    ELSE IF a[1] > 0 THEN Num(1 + Ceil(a))
    ELSE Q(1, 1 + Ceil(Neg(a)))

(* ---------------------------- henrys_law.py --------------------------- *)
\* HenrysLaw.__init__
HenrysLaw(h, t_dep, ref_temp, name) ==
    [cls |-> "HenrysLaw", name |-> name, _ref_h_cp |-> h, _t_dep |-> t_dep,
     ref_temp |-> ref_temp]

\* h_cp with the two reciprocal temperatures added instead of subtracted
h_cp_SignSlip(self, temp) ==
    LET _t == PyOr(temp, self.ref_temp)
        temp_term == Add(Div(One, _t), Div(One, self.ref_temp))
        exp_term == ExpQ(Mul(self._t_dep, temp_term))
    IN  Mul(self._ref_h_cp, exp_term)

\* HenrysLaw.h_cp(self, temp=None)
h_cp(self, temp) ==
    LET _t == PyOr(temp, self.ref_temp)
        temp_term == Sub(Div(One, _t), Div(One, self.ref_temp))
        exp_term == ExpQ(Mul(self._t_dep, temp_term))
    IN  Mul(self._ref_h_cp, exp_term)

\* HenrysLaw.molar_conc(self, p, temp=None)
molar_conc(self, p, temp) ==
    LET _h_cp == h_cp(self, temp)
        conc == Mul(p, _h_cp)
    IN  Mul(Q(1, 1000), conc)

_REF_T == Q(29815, 100)
O2_SOL == HenrysLaw(Q(12, 1000000), Num(1700), _REF_T, "O2")
CO2_SOL == HenrysLaw(Q(33, 100000), Num(2400), _REF_T, "CO2")

(* ----------------------------- rubiscos.py ---------------------------- *)
\* the constructor with K_C and K_O exchanged in the derivation of kcat_O
RuBisCOParams_SwappedK(kcat_C, K_C, K_O, S, name, mw) ==
    [cls |-> "RuBisCOParams", kcat_C |-> kcat_C, K_C |-> K_C, K_O |-> K_O, S |-> S,
     kcat_O |-> Div(Mul(kcat_C, K_C), Mul(K_O, S)),
     name |-> name, mw |-> mw]

\* RuBisCOParams.__init__(self, kcat_C, K_C, K_O, S, name=None, mw=65e3)
RuBisCOParams(kcat_C, K_C, K_O, S, name, mw) ==
    [cls |-> "RuBisCOParams", kcat_C |-> kcat_C, K_C |-> K_C, K_O |-> K_O, S |-> S,
     kcat_O |-> Div(Mul(kcat_C, K_O), Mul(K_C, S)),
     name |-> name, mw |-> mw]

\* the default of the mw parameter
DefaultMw == Num(65000)

\* vs with the oxygenation rate computed from kcat_C
RuBisCOParams_vs_KcatC(self, co2, o2) ==
    LET vc == Div(self.kcat_C,
                  Add(Add(One, Div(self.K_C, co2)),
                      Div(Mul(self.K_C, o2), Mul(self.K_O, co2))))
        vo == Div(self.kcat_C,
                  Add(Add(One, Div(self.K_O, o2)),
                      Div(Mul(self.K_O, co2), Mul(self.K_C, o2))))
    IN  <<vc, vo>>

\* RuBisCOParams.vs(self, co2, o2): <<vc, vo>>
RuBisCOParams_vs(self, co2, o2) ==
    LET vc == Div(self.kcat_C,
                  Add(Add(One, Div(self.K_C, co2)),
                      Div(Mul(self.K_C, o2), Mul(self.K_O, co2))))
        vo == Div(self.kcat_O,
                  Add(Add(One, Div(self.K_O, o2)),
                      Div(Mul(self.K_O, co2), Mul(self.K_C, o2))))
    IN  <<vc, vo>>

\* net_vc with the oxygenation cost added instead of subtracted
RuBisCOParams_net_vc_Plus(self, co2, o2) ==
    LET v == RuBisCOParams_vs(self, co2, o2)
    IN  Add(v[1], Div(v[2], Num(2)))

\* RuBisCOParams.net_vc(self, co2, o2)
RuBisCOParams_net_vc(self, co2, o2) ==
    LET v == RuBisCOParams_vs(self, co2, o2)
    IN  Sub(v[1], Div(v[2], Num(2)))

PCC7942 == RuBisCOParams(Q(144, 10), Num(172), Num(585), Num(43), "PCC7942", DefaultMw)
RUBRUM == RuBisCOParams(Q(73, 10), Num(80), Num(406), Q(123, 10), "Rubrum", Num(52000))
SPINACH == RuBisCOParams(Q(37, 10), Num(14), Num(480), Num(80), "Spinach", DefaultMw)
MAIZE == RuBisCOParams(Q(44, 10), Num(34), Num(810), Num(78), "Maize", DefaultMw)
TOBACCO == RuBisCOParams(Q(34, 10), Q(107, 10), Num(295), Num(82), "Tobacco", DefaultMw)
\* universal gas constant, kJ/mol/K
_R == Q(8314, 1000000)

\* ArrheniusParam.__init__(self, ref_value, ref_temp, e_act)
ArrheniusParam(ref_value, ref_temp, e_act) ==
    [cls |-> "ArrheniusParam", ref_value |-> ref_value, ref_temp |-> ref_temp,
     e_act |-> e_act]

\* value with the closing parenthesis of np.exp one factor too early
value_ParenSlip(g, self, temp) ==
    LET my_temp == PyOr(temp, self.ref_temp)
        exp_term == Div(Mul(ExpQ(Div(Neg(self.e_act), Mul(g["_R"].val, my_temp))),
                            Sub(self.ref_temp, my_temp)),
                        self.ref_temp)
    IN  Mul(self.ref_value, exp_term)

\* ArrheniusParam.value(self, temp=None); g is the module namespace, read for _R
value(g, self, temp) ==
    LET my_temp == PyOr(temp, self.ref_temp)
        exp_term == ExpQ(Div(Mul(Div(Neg(self.e_act), Mul(g["_R"].val, my_temp)),
                                 Sub(self.ref_temp, my_temp)),
                             self.ref_temp))
    IN  Mul(self.ref_value, exp_term)

\* ArrheniusRubisco.__init__(self, kcat_C, K_C, K_O, S, ref_temp=None, name=None, mw=65e3)
ArrheniusRubisco(kcat_C, K_C, K_O, S, ref_temp, name, mw) ==
    [cls |-> "ArrheniusRubisco", kcat_C |-> kcat_C, K_C |-> K_C, K_O |-> K_O, S |-> S,
     ref_temp |-> PyOr(ref_temp, Q(29815, 100)), name |-> name, mw |-> mw]

\* concrete_temp with K_O converted by the CO2 solubility model
concrete_temp_WrongGas(g, self, temp) ==
    LET kcat_C == value(g, self.kcat_C, temp)
        K_C == value(g, self.K_C, temp)
        K_O == value(g, self.K_O, temp)
        S == value(g, self.S, temp)
        K_C_umolar == Mul(molar_conc(g["CO2_SOL"], K_C, temp), Num(1000000))
        K_O_umolar == Mul(molar_conc(g["CO2_SOL"], K_O, temp), Num(1000000))
        sol_ratio == Div(h_cp(g["O2_SOL"], temp), h_cp(g["CO2_SOL"], temp))
        S_sol == Mul(S, sol_ratio)
    IN  RuBisCOParams(kcat_C, K_C_umolar, K_O_umolar, S_sol, self.name, self.mw)

\* concrete_temp with the specificity left in gas-phase units
concrete_temp_GasPhaseS(g, self, temp) ==
    LET kcat_C == value(g, self.kcat_C, temp)
        K_C == value(g, self.K_C, temp)
        K_O == value(g, self.K_O, temp)
        S == value(g, self.S, temp)
        K_C_umolar == Mul(molar_conc(g["CO2_SOL"], K_C, temp), Num(1000000))
        K_O_umolar == Mul(molar_conc(g["O2_SOL"], K_O, temp), Num(1000000))
    IN  RuBisCOParams(kcat_C, K_C_umolar, K_O_umolar, S, self.name, self.mw)

\* ArrheniusRubisco.concrete_temp(self, temp): a new RuBisCOParams;
\* g is the module namespace, read for _R, CO2_SOL and O2_SOL
concrete_temp(g, self, temp) ==
    LET kcat_C == value(g, self.kcat_C, temp)
        K_C == value(g, self.K_C, temp)
        K_O == value(g, self.K_O, temp)
        S == value(g, self.S, temp)
        K_C_umolar == Mul(molar_conc(g["CO2_SOL"], K_C, temp), Num(1000000))
        K_O_umolar == Mul(molar_conc(g["O2_SOL"], K_O, temp), Num(1000000))
        sol_ratio == Div(h_cp(g["O2_SOL"], temp), h_cp(g["CO2_SOL"], temp))
        S_sol == Mul(S, sol_ratio)
    IN  RuBisCOParams(kcat_C, K_C_umolar, K_O_umolar, S_sol, self.name, self.mw)

\* ArrheniusRubisco.vs(self, co2, o2, temp=None)
ArrheniusRubisco_vs(g, self, co2, o2, temp) ==
    LET t == PyOr(temp, self.ref_temp)
        rps == concrete_temp(g, self, t)
    IN  RuBisCOParams_vs(rps, co2, o2)

\* ArrheniusRubisco.net_vc(self, co2, o2, temp=None)
ArrheniusRubisco_net_vc(g, self, co2, o2, temp) ==
    LET t == PyOr(temp, self.ref_temp)
        rps == concrete_temp(g, self, t)
    IN  RuBisCOParams_net_vc(rps, co2, o2)

ATHALIANA_T ==
    ArrheniusRubisco(ArrheniusParam(Q(31, 10), _REF_T, Q(596, 10)),
                     ArrheniusParam(Num(36), _REF_T, Num(63)),
                     ArrheniusParam(Num(23100), _REF_T, Q(169, 10)),
                     ArrheniusParam(Num(2003), _REF_T, Q(-287, 10)),
                     _REF_T, "A. thaliana", DefaultMw)

(* ------------------------------- state -------------------------------- *)
\* a Python float bound to a module-level name
Float(v) == [cls |-> "float", val |-> v]
NoneObj == [cls |-> "NoneType"]

\* the module-level names of henrys_law.py and rubiscos.py after import
ModuleNames ==
    {"O2_SOL", "CO2_SOL", "PCC7942", "RUBRUM", "SPINACH", "MAIZE", "TOBACCO",
     "_R", "_REF_T", "ATHALIANA_T"}

ModuleInit ==
    [n \in ModuleNames |->
        CASE n = "O2_SOL" -> O2_SOL
          [] n = "CO2_SOL" -> CO2_SOL
          [] n = "PCC7942" -> PCC7942
          [] n = "RUBRUM" -> RUBRUM
          [] n = "SPINACH" -> SPINACH
          [] n = "MAIZE" -> MAIZE
          [] n = "TOBACCO" -> TOBACCO
          [] n = "_R" -> Float(_R)
          [] n = "_REF_T" -> Float(_REF_T)
          [] n = "ATHALIANA_T" -> ATHALIANA_T]

\* what a call returned: a float, a tuple of floats, a newly constructed
\* object, or nothing (a statement)
RetFloat(v) == [kind |-> "float", val |-> v]
RetTuple(v) == [kind |-> "tuple", val |-> v]
RetNew(o) == [kind |-> "new", val |-> o]
NoRet == [kind |-> "None", val |-> None]

Called(op, attr, args) == [op |-> op, attr |-> attr, args |-> args]

(* ------------------------------- inputs ------------------------------- *)
Vals == {Num(k) : k \in 1..MaxVal}
Conc == {Num(k) : k \in 1..MaxConc} \cup {Num(200)}
\* temperatures, in K: the reference temperature of the module, and two
\* whole values at which every quotient of the module-level literals stays
\* within the integers of the model checker
Temps == {_REF_T, Num(300), Num(400)}
\* a temperature argument: omitted, an explicit 0, or a temperature
TempArgs == Temps \cup {None, Zero}
\* activation energies: negative, zero, positive
EActs == {Num(-1), Zero, One}

ParamAttrs == {"kcat_C", "K_C", "K_O", "S"}

Init ==
    /\ heap = [n \in ModuleNames \cup {"local"} |->
                  IF n = "local" THEN NoneObj ELSE ModuleInit[n]]
    /\ x = "local"
    /\ call = Called("import", "", <<>>)
    /\ ret = NoRet

\* the object the caller's variable refers to
Self == heap[x]

\* x is bound to no instance
Unbound == x = "local" /\ heap["local"] = NoneObj

\* the statements that are no method call; a method is called after one of them
Statements ==
    {"import", "bind", "del", "taken", "HenrysLaw", "ArrheniusParam",
     "RuBisCOParams", "ArrheniusRubisco"}
Ready == call.op \in Statements

(* --------------------- the caller binds its variable ------------------ *)
\* x = <module-level instance>
Bind ==
    \E n \in ModuleNames :
        /\ Unbound
        /\ heap[n].cls \in {"HenrysLaw", "RuBisCOParams", "ArrheniusRubisco"}
        /\ x' = n
        /\ heap' = [heap EXCEPT !["local"] = NoneObj]
        /\ call' = Called("bind", "", <<>>)
        /\ ret' = NoRet

\* x = HenrysLaw(h, t_dep, ref_temp)
NewHenrysLaw ==
    \E h \in Vals, t_dep \in Vals, ref_temp \in Temps :
        /\ Unbound
        /\ heap' = [heap EXCEPT !["local"] = HenrysLaw(h, t_dep, ref_temp, "None")]
        /\ x' = "local"
        /\ call' = Called("HenrysLaw", "", <<h, t_dep, ref_temp>>)
        /\ ret' = NoRet

\* x = ArrheniusParam(ref_value, ref_temp, e_act)
NewArrheniusParam ==
    \E ref_value \in Vals, ref_temp \in Temps, e_act \in EActs :
        /\ Unbound
        /\ heap' = [heap EXCEPT !["local"] = ArrheniusParam(ref_value, ref_temp, e_act)]
        /\ x' = "local"
        /\ call' = Called("ArrheniusParam", "", <<ref_value, ref_temp, e_act>>)
        /\ ret' = NoRet

\* x = RuBisCOParams(kcat_C, K_C, K_O, S)
NewRuBisCOParams ==
    \E kcat_C \in Vals, K_C \in Vals, K_O \in Vals, S \in Vals :
        /\ Unbound
        /\ heap' = [heap EXCEPT !["local"] =
                        RuBisCOParams(kcat_C, K_C, K_O, S, "None", DefaultMw)]
        /\ x' = "local"
        /\ call' = Called("RuBisCOParams", "", <<kcat_C, K_C, K_O, S>>)
        /\ ret' = NoRet

\* x = ArrheniusRubisco(kcat_C=ArrheniusParam(..), K_C=.., K_O=.., S=.., ref_temp=rt),
\* the four parameters built in place as for ATHALIANA_T: reference values
\* a, b, b+1, a+b, one reference temperature, activation energies e, e, e, -e
NewArrheniusRubisco ==
    \E a \in 1..MaxVal, b \in 1..MaxVal, prt \in Temps, e \in EActs,
       rt \in Temps \cup {None} :
        /\ Unbound
        /\ heap' = [heap EXCEPT !["local"] =
                        ArrheniusRubisco(ArrheniusParam(Num(a), prt, e),
                                         ArrheniusParam(Num(b), prt, e),
                                         ArrheniusParam(Num(b + 1), prt, e),
                                         ArrheniusParam(Num(a + b), prt, Neg(e)),
                                         rt, "None", DefaultMw)]
        /\ x' = "local"
        /\ call' = Called("ArrheniusRubisco", "", <<Num(a), Num(b), prt, e, rt>>)
        /\ ret' = NoRet

\* del x
Del ==
    /\ ~Unbound
    /\ heap' = [heap EXCEPT !["local"] = NoneObj]
    /\ x' = "local"
    /\ call' = Called("del", "", <<>>)
    /\ ret' = NoRet

\* the caller takes the result of the call it made
Take ==
    /\ ~Ready
    /\ call' = Called("taken", "", <<>>)
    /\ ret' = NoRet
    /\ UNCHANGED <<heap, x>>

(* ------------------------------ the calls ----------------------------- *)
\* x.h_cp(temp)
Call_h_cp ==
    /\ Ready
    /\ Self.cls = "HenrysLaw"
    /\ \E temp \in TempArgs :
        /\ call' = Called("h_cp", "", <<temp>>)
        /\ ret' = RetFloat(h_cp(Self, temp))
    /\ UNCHANGED <<heap, x>>

\* x.molar_conc(p, temp)
Call_molar_conc ==
    /\ Ready
    /\ Self.cls = "HenrysLaw"
    /\ \E p \in Vals, temp \in TempArgs :
        /\ call' = Called("molar_conc", "", <<p, temp>>)
        /\ ret' = RetFloat(molar_conc(Self, p, temp))
    /\ UNCHANGED <<heap, x>>

\* the ArrheniusParam a call of value is made on: x itself, or x.<attr>
ParamOf(o, attr) == IF attr = "" THEN o ELSE o[attr]

\* x.value(temp), or x.<attr>.value(temp) on an ArrheniusRubisco
Call_value ==
    /\ Ready
    /\ \E attr \in (IF Self.cls = "ArrheniusParam" THEN {""}
                    ELSE IF Self.cls = "ArrheniusRubisco" THEN ParamAttrs ELSE {}),
          temp \in TempArgs :
        /\ call' = Called("value", attr, <<temp>>)
        /\ ret' = RetFloat(value(heap, ParamOf(Self, attr), temp))
    /\ UNCHANGED <<heap, x>>

\* x.vs(co2, o2) on a RuBisCOParams
Call_vs ==
    /\ Ready
    /\ Self.cls = "RuBisCOParams"
    /\ \E co2 \in Conc, o2 \in Conc :
        /\ call' = Called("vs", "", <<co2, o2>>)
        /\ ret' = RetTuple(RuBisCOParams_vs(Self, co2, o2))
    /\ UNCHANGED <<heap, x>>

\* x.net_vc(co2, o2) on a RuBisCOParams
Call_net_vc ==
    /\ Ready
    /\ Self.cls = "RuBisCOParams"
    /\ \E co2 \in Conc, o2 \in Conc :
        /\ call' = Called("net_vc", "", <<co2, o2>>)
        /\ ret' = RetFloat(RuBisCOParams_net_vc(Self, co2, o2))
    /\ UNCHANGED <<heap, x>>

\* concrete_temp keeping the temperature it was called with on the model
Call_concrete_temp_Storing ==
    /\ Ready
    /\ Self.cls = "ArrheniusRubisco"
    /\ \E temp \in TempArgs :
        /\ call' = Called("concrete_temp", "", <<temp>>)
        /\ ret' = RetNew(concrete_temp(heap, Self, temp))
        /\ heap' = [heap EXCEPT ![x].ref_temp = PyOr(temp, @)]
    /\ UNCHANGED x

\* x.concrete_temp(temp)
Call_concrete_temp ==
    /\ Ready
    /\ Self.cls = "ArrheniusRubisco"
    /\ \E temp \in TempArgs :
        /\ call' = Called("concrete_temp", "", <<temp>>)
        /\ ret' = RetNew(concrete_temp(heap, Self, temp))
    /\ UNCHANGED <<heap, x>>

\* x.vs(co2, o2, temp) on an ArrheniusRubisco
Call_ArrheniusRubisco_vs ==
    /\ Ready
    /\ Self.cls = "ArrheniusRubisco"
    /\ \E co2 \in Conc, o2 \in Conc, temp \in TempArgs :
        /\ call' = Called("ArrheniusRubisco.vs", "", <<co2, o2, temp>>)
        /\ ret' = RetTuple(ArrheniusRubisco_vs(heap, Self, co2, o2, temp))
    /\ UNCHANGED <<heap, x>>

\* x.net_vc(co2, o2, temp) on an ArrheniusRubisco
Call_ArrheniusRubisco_net_vc ==
    /\ Ready
    /\ Self.cls = "ArrheniusRubisco"
    /\ \E co2 \in Conc, o2 \in Conc, temp \in TempArgs :
        /\ call' = Called("ArrheniusRubisco.net_vc", "", <<co2, o2, temp>>)
        /\ ret' = RetFloat(ArrheniusRubisco_net_vc(heap, Self, co2, o2, temp))
    /\ UNCHANGED <<heap, x>>

Next ==
    \/ Bind
    \/ NewHenrysLaw
    \/ NewArrheniusParam
    \/ NewRuBisCOParams
    \/ NewArrheniusRubisco
    \/ Del
    \/ Take
    \/ Call_h_cp
    \/ Call_molar_conc
    \/ Call_value
    \/ Call_vs
    \/ Call_net_vc
    \/ Call_concrete_temp
    \/ Call_ArrheniusRubisco_vs
    \/ Call_ArrheniusRubisco_net_vc

Spec == Init /\ [][Next]_vars

(* ------------------------------- claims ------------------------------- *)
Positive(a) == IsNum(a) /\ a[1] > 0

\* C1: on a fixed-parameter model, net_vc(co2, o2) does not increase when o2
\* grows with co2 fixed, and does not decrease when co2 grows with o2 fixed.
C1_NetVcMonotone ==
    call.op = "net_vc" =>
        LET co2 == call.args[1]
            o2 == call.args[2]
        IN  \A c \in Conc :
                /\ Leq(o2, c) => Leq(RuBisCOParams_net_vc(Self, co2, c), ret.val)
                /\ Leq(co2, c) => Leq(ret.val, RuBisCOParams_net_vc(Self, c, o2))

\* net_vc has been called on a caller-built model, and a larger o2 gives a
\* strictly smaller, a larger co2 a strictly larger net rate
C1_Witness ==
    /\ call.op = "net_vc"
    /\ x = "local"
    /\ \E c \in Conc :
        /\ Lt(call.args[2], c)
        /\ Lt(RuBisCOParams_net_vc(Self, call.args[1], c), ret.val)
    /\ \E c \in Conc :
        /\ Lt(call.args[1], c)
        /\ Lt(ret.val, RuBisCOParams_net_vc(Self, c, call.args[2]))

\* the specificity rebuilt from the stored fields of a RuBisCOParams
Specificity(o) == Div(Mul(o.kcat_C, o.K_O), Mul(o.kcat_O, o.K_C))

\* C2: the specificity rebuilt from the stored kcat_C, K_O, kcat_O and K_C of a
\* fixed-parameter instance is the S its constructor was given.
C2_SpecificityRoundTrip ==
    /\ call.op = "RuBisCOParams" => Specificity(Self) = call.args[4]
    /\ Self.cls = "RuBisCOParams" => Specificity(Self) = Self.S
    /\ call.op = "concrete_temp" => Specificity(ret.val) = ret.val.S

\* an instance has just been constructed with S different from 1
C2_Witness ==
    /\ call.op = "RuBisCOParams"
    /\ call.args[4] = Num(2)
    /\ call.args[2] # call.args[3]
    /\ Specificity(Self) = Num(2)

\* the temperature the formula of a call is meant to use: the one supplied,
\* the reference temperature when it is omitted
Supplied(temp, ref_temp) == IF temp = None THEN ref_temp ELSE temp

\* C3: vs and net_vc of an ArrheniusRubisco return what concrete_temp(T).vs and
\* concrete_temp(T).net_vc return, T being the supplied temp, or ref_temp when
\* temp is omitted.
C3_ThroughConversion ==
    /\ call.op = "ArrheniusRubisco.vs" =>
           ret.val = RuBisCOParams_vs(
                         concrete_temp(heap, Self, Supplied(call.args[3], Self.ref_temp)),
                         call.args[1], call.args[2])
    /\ call.op = "ArrheniusRubisco.net_vc" =>
           ret.val = RuBisCOParams_net_vc(
                         concrete_temp(heap, Self, Supplied(call.args[3], Self.ref_temp)),
                         call.args[1], call.args[2])

\* The delegation of C3 where no explicit 0 is supplied (temp omitted, or
\* temp > 0): every such evaluation goes through concrete_temp.
ThroughConversionUnlessZero ==
    (call.op \in {"ArrheniusRubisco.vs", "ArrheniusRubisco.net_vc"}
        /\ call.args[3] # Zero) => C3_ThroughConversion

\* C4: h_cp(ref_temp) and h_cp() return the reference coefficient, and
\* molar_conc(p, ref_temp) returns 1e-3 * p * reference coefficient; CO2_SOL
\* gives 3.3e-4 and, for p = 1.0, 3.3e-7.
C4_HcpAtReference ==
    /\ (call.op = "h_cp" /\ call.args[1] \in {Self.ref_temp, None}) =>
           ret.val = Self._ref_h_cp
    /\ (call.op = "molar_conc" /\ call.args[2] \in {Self.ref_temp, None}) =>
           ret.val = Mul(Mul(Q(1, 1000), call.args[1]), Self._ref_h_cp)
    /\ (x = "CO2_SOL" /\ call = Called("h_cp", "", <<Q(29815, 100)>>)) =>
           ret.val = Q(33, 100000)
    /\ (x = "CO2_SOL" /\ call = Called("molar_conc", "", <<One, Q(29815, 100)>>)) =>
           ret.val = Q(33, 100000000)

\* CO2_SOL.molar_conc(1.0, 298.15) has returned 3.3e-7
C4_Witness ==
    /\ x = "CO2_SOL"
    /\ call = Called("molar_conc", "", <<One, Q(29815, 100)>>)
    /\ ret.val = Q(33, 100000000)

\* C5: value(ref_temp) and value() return ref_value, whatever the activation
\* energy.
C5_ValueAtReference ==
    call.op = "value" =>
        LET p == ParamOf(Self, call.attr)
        IN  call.args[1] \in {p.ref_temp, None} => ret.val = p.ref_value

\* value has been called at the reference temperature on a parameter with a
\* negative activation energy
C5_Witness ==
    /\ call.op = "value"
    /\ call.args[1] = ParamOf(Self, call.attr).ref_temp
    /\ ParamOf(Self, call.attr).e_act[1] < 0
    /\ ret.val = ParamOf(Self, call.attr).ref_value

\* C6: h_cp and value use an explicitly supplied temperature as it is, so a
\* supplied temperature of 0 gives the division-by-zero outcome.
C6_ExplicitZeroDivides ==
    (call.op \in {"h_cp", "value"} /\ call.args[1] = Zero) => ret.val = DivZero

\* C7: on a fixed-parameter model with positive parameters and co2, o2 > 0, vs
\* returns vc > 0 and vo > 0 with vc * o2 = S * vo * co2, so vc > vo whenever
\* S * co2 > o2; PCC7942.vs(200, 200) returns vc > vo > 0.
C7_RatesPositive ==
    call.op = "vs" =>
        LET vc == ret.val[1]
            vo == ret.val[2]
            co2 == call.args[1]
            o2 == call.args[2]
        IN  /\ Positive(vc)
            /\ Positive(vo)
            /\ Mul(vc, o2) = Mul(Mul(Self.S, vo), co2)
            /\ Lt(o2, Mul(Self.S, co2)) => Lt(vo, vc)
            /\ (x = "PCC7942" /\ co2 = Num(200) /\ o2 = Num(200)) => Lt(vo, vc)

\* PCC7942.vs(200, 200) has returned rates with vc > vo
C7_Witness ==
    /\ x = "PCC7942"
    /\ call = Called("vs", "", <<Num(200), Num(200)>>)
    /\ Lt(ret.val[2], ret.val[1])

\* C8: for temp > 0, concrete_temp(temp) returns a RuBisCOParams whose kcat_C is
\* kcat_C.value(temp), whose K_C is K_C.value(temp) scaled by 1000 times the CO2
\* solubility coefficient at temp, whose K_O is K_O.value(temp) scaled by 1000
\* times the O2 coefficient, whose S is S.value(temp) times the O2 coefficient
\* over the CO2 coefficient, and whose name and mw are those of the model;
\* ATHALIANA_T at 298.15 gives kcat_C = 3.1.
C8_ConcreteFields ==
    (call.op = "concrete_temp" /\ Positive(call.args[1])) =>
        LET temp == call.args[1]
            hC == h_cp(heap["CO2_SOL"], temp)
            hO == h_cp(heap["O2_SOL"], temp)
            r == ret.val
        IN  /\ ret.kind = "new"
            /\ r.cls = "RuBisCOParams"
            /\ r.kcat_C = value(heap, Self.kcat_C, temp)
            /\ r.K_C = Mul(Num(1000), Mul(value(heap, Self.K_C, temp), hC))
            /\ r.K_O = Mul(Num(1000), Mul(value(heap, Self.K_O, temp), hO))
            /\ r.S = Div(Mul(value(heap, Self.S, temp), hO), hC)
            /\ r.name = Self.name
            /\ r.mw = Self.mw
            /\ (x = "ATHALIANA_T" /\ temp = Q(29815, 100)) =>
                   /\ r.kcat_C = Q(31, 10)
                   /\ r.K_C = Q(1188, 100)
                   /\ r.K_O = Q(2772, 10)
                   /\ r.S = Q(2003 * 12, 330)

\* ATHALIANA_T.concrete_temp(298.15) has returned a model with kcat_C = 3.1
C8_Witness ==
    /\ x = "ATHALIANA_T"
    /\ call = Called("concrete_temp", "", <<Q(29815, 100)>>)
    /\ ret.val.kcat_C = Q(31, 10)

\* C9: no call changes a field of any object: the module-level objects are
\* never changed, a method call leaves every object and the caller's binding
\* as they were, concrete_temp returns a new RuBisCOParams, and the call just
\* made, made again, returns the same result.
Replay(h, o, c) ==
    CASE c.op = "h_cp" -> RetFloat(h_cp(o, c.args[1]))
      [] c.op = "molar_conc" -> RetFloat(molar_conc(o, c.args[1], c.args[2]))
      [] c.op = "value" -> RetFloat(value(h, ParamOf(o, c.attr), c.args[1]))
      [] c.op = "vs" -> RetTuple(RuBisCOParams_vs(o, c.args[1], c.args[2]))
      [] c.op = "net_vc" -> RetFloat(RuBisCOParams_net_vc(o, c.args[1], c.args[2]))
      [] c.op = "concrete_temp" -> RetNew(concrete_temp(h, o, c.args[1]))
      [] c.op = "ArrheniusRubisco.vs" ->
             RetTuple(ArrheniusRubisco_vs(h, o, c.args[1], c.args[2], c.args[3]))
      [] c.op = "ArrheniusRubisco.net_vc" ->
             RetFloat(ArrheniusRubisco_net_vc(h, o, c.args[1], c.args[2], c.args[3]))

C9_NoMutation ==
    [][/\ \A n \in ModuleNames : heap'[n] = heap[n]
       /\ call'.op \notin Statements =>
              /\ heap' = heap
              /\ x' = x
              /\ Replay(heap', heap'[x'], call') = ret'
       /\ call'.op = "concrete_temp" =>
              /\ ret'.kind = "new"
              /\ ret'.val.cls = "RuBisCOParams"]_vars

\* concrete_temp has been called on ATHALIANA_T at a temperature other than its
\* reference, and every module-level object is as it was constructed
C9_Witness ==
    /\ x = "ATHALIANA_T"
    /\ call = Called("concrete_temp", "", <<Num(400)>>)
    /\ ret.kind = "new"
    /\ \A n \in ModuleNames : heap[n] = ModuleInit[n]

\* C10: for temp > 0, the kcat_O of concrete_temp(temp) is
\* kcat_C.value(temp) * K_O.value(temp) / (K_C.value(temp) * S.value(temp)),
\* computed from the unconverted values: the solubilities cancel.
C10_KcatOSolubilityFree ==
    (call.op = "concrete_temp" /\ Positive(call.args[1])) =>
        LET temp == call.args[1]
        IN  ret.val.kcat_O =
                Div(Mul(value(heap, Self.kcat_C, temp), value(heap, Self.K_O, temp)),
                    Mul(value(heap, Self.K_C, temp), value(heap, Self.S, temp)))

\* concrete_temp has been called at 400 K, where the two solubility
\* coefficients differ from their reference values and from each other
C10_Witness ==
    /\ call = Called("concrete_temp", "", <<Num(400)>>)
    /\ h_cp(heap["CO2_SOL"], Num(400)) # heap["CO2_SOL"]._ref_h_cp
    /\ h_cp(heap["O2_SOL"], Num(400)) # heap["O2_SOL"]._ref_h_cp
    /\ ret.val.K_C # value(heap, Self.K_C, Num(400))
    /\ ret.val.S # value(heap, Self.S, Num(400))

====
